---- MODULE Spec2Model ----
(***************************************************************************)
(* Deep_Data: the GUI shell (gui.py, class MainGUI) and the importer       *)
(* (data_import.py).  The shell owns the table, the model and the          *)
(* configuration; every button runs one handler on the UI thread.  The     *)
(* column-naming dialog of assign_column_names blocks inside the import    *)
(* handler in a nested event loop, so the import handler is split at       *)
(* dialog.wait_window().                                                   *)
(***************************************************************************)
EXTENDS Integers, Sequences, FiniteSets, TLC

VARIABLES
    data,          \* MainGUI.data: the current DataFrame or None
    model,         \* MainGUI.model: the trained model or None
    config,        \* MainGUI.config: the method configuration mapping
    message,       \* text of MainGUI.message_label
    tree,          \* MainGUI.data_tree: column headings and inserted rows
    dist_values,   \* MainGUI.dist_col_menu['values']
    dist_col,      \* MainGUI.dist_col (StringVar of the combobox)
    ax,            \* content of MainGUI.ax, the single plot surface
    pc,            \* "idle", or "dialog" while wait_window() blocks import
    entries,       \* the Entry widgets of the column-naming dialog
    last_op,       \* the handler that ran last
    outcome,       \* how it ended: ok / reported / escaped / dismissed
    call,          \* the adapter call the last handler made, if any
    arg_file,      \* argument of a direct import_data(file_path) call
    ret_df         \* what that call returned or raised

vars == <<data, model, config, message, tree, dist_values, dist_col, ax, pc,
          entries, last_op, outcome, call, arg_file, ret_df>>

shell == <<data, model, config, message, tree, dist_values, dist_col, ax>>

----------------------------------------------------------------------------
(* Bounds *)

MaxCols == 2        \* most columns a file parses into
MaxVer == 1         \* most transformations applied to one imported table
MaxTyped == 1       \* distinct texts the user types into a dialog entry

----------------------------------------------------------------------------
(* Values *)

None == [kind |-> "none"]
NoCall == [fn |-> "none"]
NotCalled == [kind |-> "notcalled"]
NoFile == [ext |-> "none"]

Range(s) == {s[i] : i \in DOMAIN s}

Raise(exc, text) == [kind |-> "error", exc |-> exc, prefix |-> "", text |-> text]

IsError(v) == v.kind = "error"

\* A file on disk, by what the parsing library makes of it: for each
\* delimiter the number of columns read_csv yields (ParseFails when it
\* raises), and for a workbook the number of columns of the first sheet.
ParseFails == -1

Delimiters == {";", "\t", ",", " "}

Extensions == {".csv", ".xlsx", ".txt", ".dat"}

Files == [ext : Extensions,
          parse : [Delimiters -> {ParseFails} \cup (1..MaxCols)],
          sheet : {ParseFails} \cup (0..MaxCols)]

\* The DataFrame the library returns for n columns split on sep: the header
\* cells as split by that delimiter, and the rows below them.
DataFrame(sep, n) ==
    [kind |-> "table",
     cols |-> [i \in 1..n |-> <<sep, i>>],
     rows |-> [sep |-> sep, n |-> n, ver |-> 0]]

read_csv(file, sep) ==
    IF file.parse[sep] = ParseFails
    THEN Raise("ParserError", "parse")
    ELSE DataFrame(sep, file.parse[sep])

read_excel(file) ==
    IF file.sheet = ParseFails
    THEN Raise("ValueError", "excel")
    ELSE DataFrame("sheet", file.sheet)

----------------------------------------------------------------------------
(* data_import.import_data *)

separators == <<";", "\t", ",", " ">>

\* Variant: accepts a parse of a single column.
AnyColumns(df) == Len(df.cols) >= 1

\* The acceptance test of the loop: len(df.columns) > 1.
MultipleColumns(df) == Len(df.cols) > 1

RECURSIVE TrySeparators(_, _)
TrySeparators(file, i) ==
    IF i > Len(separators)
    THEN Raise("ValueError", "Could not determine the separator for the .txt file.")
    ELSE LET df == read_csv(file, separators[i])
         IN  IF IsError(df)
             THEN TrySeparators(file, i + 1)
             ELSE IF MultipleColumns(df)
                  THEN df
                  ELSE TrySeparators(file, i + 1)

import_data(file) ==
    LET r == IF file.ext = ".csv" THEN read_csv(file, ",")
             ELSE IF file.ext = ".xlsx" THEN read_excel(file)
             ELSE IF file.ext = ".txt" THEN TrySeparators(file, 1)
             ELSE Raise("ValueError", "Unsupported file type. Use .txt, .xlsx, or .csv files.")
    IN  IF IsError(r)
        THEN [Raise("ValueError", r.text) EXCEPT !.prefix = "Error reading file: "]
        ELSE r

\* The files the user picks in the shell's file dialog: every extension;
\* read as text they split on ';' or ',' into MaxCols columns or not at
\* all; read as a workbook they hold an empty or a MaxCols-wide sheet.
DiskFiles ==
    {f \in Files :
        /\ f.parse["\t"] = ParseFails /\ f.parse[" "] = ParseFails
        /\ f.parse[";"] \in {ParseFails, MaxCols}
        /\ f.parse[","] \in {ParseFails, MaxCols}
        /\ f.sheet \in {ParseFails, 0, MaxCols}}

\* Everything import_data can hand back to the shell.
ImportOutcomes == {import_data(f) : f \in DiskFiles}

----------------------------------------------------------------------------
(* data_import.assign_column_names: the modal dialog *)

EmptyText == <<>>

default_names(num_cols) == [i \in 1..num_cols |-> <<"column_", i>>]

TypedTexts == {<<"typed", k>> : k \in 1..MaxTyped} \cup {EmptyText}

\* One ttk.Entry per column, holding its default name.
NewEntries(df) ==
    [i \in 1..Len(df.cols) |-> [text |-> default_names(Len(df.cols))[i], alive |-> TRUE]]

\* dialog.destroy() destroys the Toplevel and every widget inside it.
destroy(es) == [i \in DOMAIN es |-> [es[i] EXCEPT !.alive = FALSE]]

\* [entry.get() for entry in entries]: get() on a destroyed widget raises
\* TclError (invalid command name).
EntryTexts(es) ==
    IF \E i \in DOMAIN es : ~es[i].alive
    THEN Raise("TclError", "invalid command name")
    ELSE [kind |-> "names", names |-> [i \in DOMAIN es |-> es[i].text]]

\* The part of assign_column_names after dialog.wait_window() returns.
AfterWaitWindow(df, es, confirmed) ==
    IF ~confirmed
    THEN Raise("ValueError", "Column name input was cancelled by the user.")
    ELSE LET custom_names == EntryTexts(es)
         IN  IF IsError(custom_names)
             THEN custom_names
             ELSE IF Len(custom_names.names) # Len(df.cols)
                  THEN Raise("ValueError", "Number of column names does not match number of columns.")
                  ELSE [df EXCEPT !.cols = custom_names.names]

----------------------------------------------------------------------------
(* The adapters the shell forwards to (method_storage, preprocessing,      *)
(* modeling, post_analysis, exporting)                                     *)

\* The model types the Modeling tab offers.
model_menu_values == {"linear", "svm", "tree", "nn", "knn", "rf", "gb", "xgboost"}

\* What the user can have in the model combobox when pressing Train Model.
TagInputs == {"linear", "bogus"}

\* A transformation "target = f(ref)": the column assigned and the column
\* the right-hand side reads.
Exprs == {<<<<"new_col", 1>>, <<",", 1>>>>, <<<<",", 1>>, <<";", 1>>>>}

\* Evaluation fails on a column the table does not have; otherwise a new
\* table with the target column appended or overwritten.
apply_mathematical_transformation(df, expr) ==
    IF expr[2] \notin Range(df.cols)
    THEN Raise("NameError", "evaluation")
    ELSE [df EXCEPT !.cols = IF expr[1] \in Range(df.cols)
                             THEN df.cols ELSE Append(df.cols, expr[1]),
                    !.rows.ver = df.rows.ver + 1]

\* Unknown model-type tags fail; the library fit may fail as well.
train_model(df, input_cols, output_col, model_type, fit_ok) ==
    IF model_type \notin model_menu_values
    THEN Raise("ValueError", "Unsupported model type")
    ELSE IF ~fit_ok
         THEN Raise("ValueError", "fit")
         ELSE [kind |-> "model", model_type |-> model_type,
               fitted_on |-> df, input_cols |-> input_cols]

\* The mappings a method file can hold.
EmptyConfig == [k \in {} |-> TRUE]

StoredConfigs ==
    {EmptyConfig,
     [last_expression |-> <<<<"new_col", 1>>, <<",", 1>>>>, last_model_type |-> "linear"]}

----------------------------------------------------------------------------
(* MainGUI *)

Blank == [kind |-> "blank"]

Init ==
    /\ data = None
    /\ model = None
    /\ config = EmptyConfig
    /\ message = ""
    /\ tree = [columns |-> <<>>, rows |-> None]
    /\ dist_values = <<>>
    /\ dist_col = EmptyText
    /\ ax = Blank
    /\ pc = "idle"
    /\ entries = <<>>
    /\ last_op = "__init__"
    /\ outcome = "ok"
    /\ call = NoCall
    /\ arg_file = NoFile
    /\ ret_df = NotCalled

Done(op, out, c) ==
    /\ last_op' = op
    /\ outcome' = out
    /\ call' = c
    /\ UNCHANGED <<arg_file, ret_df>>

\* display_data: headings and the first rows of the current table.
display_data(df, old) ==
    IF df.kind = "none" THEN old
    ELSE [columns |-> df.cols, rows |-> df.rows]

\* update_column_lists: the choices of the distribution dropdown.
update_values(df, old) ==
    IF df.kind = "none" THEN old ELSE df.cols

update_selection(df, old) ==
    IF df.kind = "none" THEN old
    ELSE IF df.cols # <<>> THEN df.cols[1] ELSE old

\* The tail of the try block of import_data, once assign_column_names
\* has returned df.
ImportSucceeds(df) ==
    /\ data' = df
    /\ tree' = display_data(df, tree)
    /\ dist_values' = update_values(df, dist_values)
    /\ dist_col' = update_selection(df, dist_col)
    /\ message' = "Data imported successfully"
    /\ UNCHANGED <<model, config, ax>>

\* The except branch of import_data, entered with self.data = held.
ImportFails(held) ==
    /\ data' = held
    /\ message' = "Error importing data"
    /\ UNCHANGED <<model, config, tree, dist_values, dist_col, ax>>

\* Import Data: the file dialog is dismissed, or import_data runs and,
\* with "First row as headers" checked, assign_column_names returns df.
ImportData ==
    /\ pc = "idle"
    /\ \E r \in ImportOutcomes :
         IF IsError(r)
         THEN /\ ImportFails(data)
              /\ Done("import_data", "reported", [fn |-> "import_data"])
         ELSE /\ ImportSucceeds(r)
              /\ Done("import_data", "ok", [fn |-> "import_data"])
    /\ UNCHANGED <<pc, entries>>

\* Import Data with "First row as headers" unchecked: self.data is assigned
\* the imported table, then assign_column_names opens the dialog and waits.
ImportDataNoHeaders ==
    /\ pc = "idle"
    /\ \E r \in ImportOutcomes :
         IF IsError(r)
         THEN /\ ImportFails(data)
              /\ Done("import_data", "reported", [fn |-> "import_data"])
              /\ UNCHANGED <<pc, entries>>
         ELSE /\ data' = r
              /\ pc' = "dialog"
              /\ entries' = NewEntries(r)
              /\ Done("import_data", "waiting", [fn |-> "import_data", held |-> data])
              /\ UNCHANGED <<model, config, message, tree, dist_values, dist_col, ax>>

\* What the entries can hold when the dialog closes: in each, the default
\* name or a text the user typed over it.
Typings(es) ==
    {t \in [DOMAIN es -> TypedTexts \cup {es[i].text : i \in DOMAIN es}] :
        \A i \in DOMAIN es : t[i] \in TypedTexts \cup {es[i].text}}

type(es, t) == [i \in DOMAIN es |-> [es[i] EXCEPT !.text = t[i]]]

\* The dialog closes with the entries as typed, wait_window() returns and
\* the import handler finishes.
DialogClose(confirmed, typed) ==
    LET df == AfterWaitWindow(data, destroy(typed), confirmed)
        c == [fn |-> "assign_column_names", held |-> call.held,
              confirmed |-> confirmed, entered |-> typed]
    IN  /\ IF IsError(df)
           THEN /\ ImportFails(data)
                /\ Done("import_data", "reported", c)
           ELSE /\ ImportSucceeds(df)
                /\ Done("import_data", "ok", c)
        /\ pc' = "idle"
        /\ entries' = <<>>

\* Confirm: confirmed.set(True) or dialog.destroy().
DialogConfirm ==
    /\ pc = "dialog"
    /\ \E t \in Typings(entries) : DialogClose(TRUE, type(entries, t))

\* Cancel, or the close button of the window: dialog.destroy() alone.
DialogCancel ==
    /\ pc = "dialog"
    /\ DialogClose(FALSE, entries)

\* Save Method: no try block; an error of the adapter leaves the handler.
SaveMethod ==
    /\ pc = "idle"
    /\ \E io_ok \in BOOLEAN :
         IF ~io_ok
         THEN /\ UNCHANGED shell
              /\ Done("save_method", "escaped", [fn |-> "save_method", config |-> config])
         ELSE /\ message' = "Method saved to"
              /\ UNCHANGED <<data, model, config, tree, dist_values, dist_col, ax>>
              /\ Done("save_method", "ok", [fn |-> "save_method", config |-> config])
    /\ UNCHANGED <<pc, entries>>

\* Load Method: the mapping read replaces self.config; a malformed file
\* makes the adapter raise.
LoadMethod ==
    /\ pc = "idle"
    /\ \E io_ok \in BOOLEAN, stored \in StoredConfigs :
         IF ~io_ok
         THEN /\ UNCHANGED shell
              /\ Done("load_method", "escaped", [fn |-> "load_method"])
         ELSE /\ config' = stored
              /\ message' = "Method loaded from"
              /\ UNCHANGED <<data, model, tree, dist_values, dist_col, ax>>
              /\ Done("load_method", "ok", [fn |-> "load_method"])
    /\ UNCHANGED <<pc, entries>>

\* Variant: the failed result replaces the table.
TableLostOnFailure(old, df) == IF IsError(df) THEN None ELSE df

\* self.data after "self.data = apply_mathematical_transformation(...)".
TableAfterApply(old, df) == IF IsError(df) THEN old ELSE df

\* Apply Transformation with the text of expr_entry.
ApplyTransformation ==
    /\ pc = "idle"
    /\ data.kind = "table" => data.rows.ver < MaxVer
    /\ \E expr \in Exprs \cup {EmptyText} :
         IF data.kind = "none"
         THEN /\ message' = "No data loaded"
              /\ UNCHANGED <<data, model, config, tree, dist_values, dist_col, ax>>
              /\ Done("apply_transformation", "reported", NoCall)
         ELSE IF expr = EmptyText
              THEN /\ message' = "Please enter a valid expression"
                   /\ UNCHANGED <<data, model, config, tree, dist_values, dist_col, ax>>
                   /\ Done("apply_transformation", "reported", NoCall)
              ELSE LET df == apply_mathematical_transformation(data, expr)
                       c == [fn |-> "apply_mathematical_transformation", expr |-> expr]
                   IN  IF IsError(df)
                       THEN /\ data' = TableAfterApply(data, df)
                            /\ UNCHANGED <<model, config, message, tree, dist_values, dist_col, ax>>
                            /\ Done("apply_transformation", "escaped", c)
                       ELSE /\ data' = TableAfterApply(data, df)
                            /\ tree' = display_data(df, tree)
                            /\ dist_values' = update_values(df, dist_values)
                            /\ dist_col' = update_selection(df, dist_col)
                            /\ message' = "Transformation applied"
                            /\ UNCHANGED <<model, config, ax>>
                            /\ Done("apply_transformation", "ok", c)
    /\ UNCHANGED <<pc, entries>>

\* The user picks one of the offered columns in the distribution dropdown.
SelectColumn ==
    /\ pc = "idle"
    /\ \E i \in DOMAIN dist_values :
         /\ dist_col # dist_values[i]
         /\ dist_col' = dist_values[i]
    /\ UNCHANGED <<data, model, config, message, tree, dist_values, ax, pc,
                   entries, last_op, outcome, call, arg_file, ret_df>>

\* Plot Distribution: self.data[col] raises KeyError for a column the
\* table does not have, after ax.clear().
PlotDistribution ==
    /\ pc = "idle"
    /\ IF data.kind = "none"
       THEN /\ message' = "No data loaded"
            /\ ax' = ax
            /\ Done("plot_distribution", "reported", NoCall)
       ELSE IF dist_col = EmptyText
            THEN /\ message' = "Please select a column"
                 /\ ax' = ax
                 /\ Done("plot_distribution", "reported", NoCall)
            ELSE IF dist_col \notin Range(data.cols)
                 THEN /\ ax' = Blank
                      /\ message' = message
                      /\ Done("plot_distribution", "escaped", NoCall)
                 ELSE /\ ax' = [kind |-> "hist"]
                      /\ message' = "Distribution plotted for column"
                      /\ Done("plot_distribution", "ok", NoCall)
    /\ UNCHANGED <<data, model, config, tree, dist_values, dist_col, pc, entries>>

\* columns[:-1]
AllButLast(cols) == IF cols = <<>> THEN <<>> ELSE SubSeq(cols, 1, Len(cols) - 1)

\* Variant: the stored model is dropped when the adapter raises.
ModelClearedOnFailure(old, r) == IF IsError(r) THEN None ELSE r

\* self.model after "self.model, metrics = train_model(...)": the tuple
\* assignment happens only if the call returns.
ModelAfterTrain(old, r) == IF IsError(r) THEN old ELSE r

\* Train Model: self.model is assigned only when the adapter returns.
TrainModel ==
    /\ pc = "idle"
    /\ \E model_type \in TagInputs, fit_ok \in BOOLEAN :
         IF data.kind = "none"
         THEN /\ message' = "No data loaded"
              /\ model' = model
              /\ Done("train_model", "reported", NoCall)
         ELSE IF data.cols = <<>>
              THEN /\ UNCHANGED <<message, model>>
                   /\ Done("train_model", "escaped", NoCall)
              ELSE LET input_cols == AllButLast(data.cols)
                       output_col == data.cols[Len(data.cols)]
                       r == train_model(data, input_cols, output_col, model_type, fit_ok)
                       c == [fn |-> "train_model", model_type |-> model_type]
                   IN  IF IsError(r)
                       THEN /\ model' = ModelAfterTrain(model, r)
                            /\ message' = message
                            /\ Done("train_model", "escaped", c)
                       ELSE /\ model' = ModelAfterTrain(model, r)
                            /\ message' = "Model trained with metrics"
                            /\ Done("train_model", "ok", c)
    /\ UNCHANGED <<data, config, tree, dist_values, dist_col, ax, pc, entries>>

\* Variant: every column is handed to the adapter.
ShapAllCols(df) == df.cols

\* The input columns perform_shap hands to the adapter.
ShapInputCols(df) == AllButLast(df.cols)

\* Variant: only the table is required.
ShapGuardDataOnly == data.kind # "none"

\* The guard "self.model and self.data is not None".
ShapGuard == model.kind # "none" /\ data.kind # "none"

\* Perform SHAP Analysis.
PerformShap ==
    /\ pc = "idle"
    /\ \E shap_ok \in BOOLEAN :
         IF ShapGuard
         THEN LET c == [fn |-> "perform_shap_analysis", model |-> model,
                        data |-> data, input_cols |-> ShapInputCols(data)]
              IN  IF shap_ok
                  THEN /\ ax' = [kind |-> "shap"]
                       /\ message' = "SHAP analysis completed"
                       /\ Done("perform_shap", "ok", c)
                  ELSE /\ ax' = Blank
                       /\ message' = message
                       /\ Done("perform_shap", "escaped", c)
         ELSE /\ message' = "No model or data available"
              /\ ax' = ax
              /\ Done("perform_shap", "reported", NoCall)
    /\ UNCHANGED <<data, model, config, tree, dist_values, dist_col, pc, entries>>

\* self.fig.axes: plt.subplots() made one axes and nothing removes it.
fig_axes == 1

\* Export Plot.
ExportPlot ==
    /\ pc = "idle"
    /\ \E io_ok \in BOOLEAN :
         IF fig_axes = 0
         THEN /\ message' = "No plot available to export"
              /\ Done("export_plot", "reported", NoCall)
         ELSE IF ~io_ok
              THEN /\ message' = message
                   /\ Done("export_plot", "escaped", [fn |-> "export_plot"])
              ELSE /\ message' = "Plot exported to"
                   /\ Done("export_plot", "ok", [fn |-> "export_plot"])
    /\ UNCHANGED <<data, model, config, tree, dist_values, dist_col, ax, pc, entries>>

\* Export Data.
ExportData ==
    /\ pc = "idle"
    /\ \E io_ok \in BOOLEAN :
         IF data.kind = "none"
         THEN /\ message' = "No data to export"
              /\ Done("export_data", "reported", NoCall)
         ELSE IF ~io_ok
              THEN /\ message' = message
                   /\ Done("export_data", "escaped", [fn |-> "export_data"])
              ELSE /\ message' = "Data exported to"
                   /\ Done("export_data", "ok", [fn |-> "export_data"])
    /\ UNCHANGED <<data, model, config, tree, dist_values, dist_col, ax, pc, entries>>

Next ==
    \/ ImportData
    \/ ImportDataNoHeaders
    \/ DialogConfirm
    \/ DialogCancel
    \/ SaveMethod
    \/ LoadMethod
    \/ ApplyTransformation
    \/ SelectColumn
    \/ PlotDistribution
    \/ TrainModel
    \/ PerformShap
    \/ ExportPlot
    \/ ExportData

Spec == Init /\ [][Next]_vars

----------------------------------------------------------------------------
(* import_data called on its own, on every file of the bounded set *)

InitImport ==
    /\ data = None
    /\ model = None
    /\ config = EmptyConfig
    /\ message = ""
    /\ tree = [columns |-> <<>>, rows |-> None]
    /\ dist_values = <<>>
    /\ dist_col = EmptyText
    /\ ax = Blank
    /\ pc = "idle"
    /\ entries = <<>>
    /\ last_op = "__init__"
    /\ outcome = "ok"
    /\ call = NoCall
    /\ arg_file \in Files
    /\ ret_df = NotCalled

CallImportData ==
    /\ ret_df = NotCalled
    /\ ret_df' = import_data(arg_file)
    /\ UNCHANGED <<shell, pc, entries, last_op, outcome, call, arg_file>>

NextImport == CallImportData

SpecImport == InitImport /\ [][NextImport]_vars

----------------------------------------------------------------------------
(* Properties *)

DataCols == IF data.kind = "none" THEN <<>> ELSE data.cols

ClaimedOrder == <<";", "\t", ",", " ">>

Accepting(file) == {i \in 1..4 : file.parse[ClaimedOrder[i]] > 1}

FirstOf(S) == CHOOSE i \in S : \A j \in S : i <= j

\* C1: for a .txt path import_data returns the parse of the first of
\* ';', tab, ',', space that yields more than one column, skipping the
\* delimiters whose parse raises or yields one column, and raises when
\* there is none.
ThmC1 ==
    (arg_file.ext = ".txt" /\ ret_df.kind # "notcalled") =>
        IF Accepting(arg_file) = {}
        THEN ret_df.kind = "error"
        ELSE LET sep == ClaimedOrder[FirstOf(Accepting(arg_file))]
             IN  ret_df = DataFrame(sep, arg_file.parse[sep])

\* A .txt file whose ';' parse raises and whose tab parse has one column
\* was imported from a later delimiter.
WitC1 ==
    /\ arg_file.ext = ".txt"
    /\ arg_file.parse[";"] = ParseFails
    /\ arg_file.parse["\t"] = 1
    /\ ret_df.kind = "table"

\* C2: after the column-naming dialog is cancelled, the status label
\* shows the import error and the current table is the table held before
\* the Import Data action started.
InvC2 ==
    (last_op = "import_data" /\ call.fn = "assign_column_names" /\ ~call.confirmed) =>
        /\ message = "Error importing data"
        /\ data = call.held

\* C3: after Confirm, the import has succeeded and the table's column
\* names are the texts the entries held at confirmation, in entry order.
InvC3 ==
    (last_op = "import_data" /\ call.fn = "assign_column_names" /\ call.confirmed) =>
        /\ outcome = "ok"
        /\ data.cols = [i \in DOMAIN call.entered |-> call.entered[i].text]

\* C4: a Train Model action in which train_model raises leaves the stored
\* model and the table as they were before the action.
ThmC4 ==
    [][(last_op' = "train_model" /\ outcome' = "escaped" /\ call'.fn = "train_model")
        => (model' = model /\ data' = data)]_vars

\* Training with a rejected tag failed while a trained model was stored.
WitC4 ==
    /\ last_op = "train_model"
    /\ outcome = "escaped"
    /\ call.fn = "train_model"
    /\ call.model_type \notin model_menu_values
    /\ model.kind = "model"

\* C5: with no model stored, Perform SHAP Analysis makes no adapter call,
\* shows the precondition message and leaves table, model and plot alone.
ThmC5 ==
    [][(PerformShap /\ model.kind = "none") =>
        /\ call' = NoCall
        /\ outcome' = "reported"
        /\ message' = "No model or data available"
        /\ data' = data
        /\ model' = model
        /\ ax' = ax]_vars

\* SHAP analysis was refused with a table loaded and a plot drawn, but no
\* model.
WitC5 ==
    /\ last_op = "perform_shap"
    /\ outcome = "reported"
    /\ model.kind = "none"
    /\ data.kind = "table"
    /\ ax.kind = "hist"

\* C6: no handler lets an error escape; every error is reported in the
\* status label.
InvC6 == outcome # "escaped"

InvC8 ==
    /\ (last_op = "apply_transformation" /\ outcome = "ok") =>
          /\ "last_expression" \in DOMAIN config
          /\ config["last_expression"] = call.expr
    /\ (last_op = "train_model" /\ outcome = "ok") =>
          /\ "last_model_type" \in DOMAIN config
          /\ config["last_model_type"] = call.model_type

\* C9: after every completed action the headings of the data table widget
\* and the choices of the distribution dropdown are the columns of the
\* current table.
InvC9 ==
    pc = "idle" => (tree.columns = DataCols /\ dist_values = DataCols)

\* C10 as stated: the model handed to the attribution adapter was trained
\* on the table handed with it, with the input columns handed with it.
InvC10 ==
    call.fn = "perform_shap_analysis" =>
        /\ call.model.fitted_on = call.data
        /\ call.model.input_cols = call.input_cols

\* C10 amended: the attribution adapter is called with the stored model,
\* which was trained on a table the shell held with all but the last of
\* that table's columns as inputs, and with the current table and all but
\* the last of the current table's columns.
ThmC10 ==
    call.fn = "perform_shap_analysis" =>
        /\ call.model.kind = "model"
        /\ call.model = model
        /\ call.model.input_cols = AllButLast(call.model.fitted_on.cols)
        /\ call.data.kind = "table"
        /\ call.data = data
        /\ call.input_cols = AllButLast(data.cols)

\* The adapter was called with a model trained on another table.
WitC10 ==
    /\ call.fn = "perform_shap_analysis"
    /\ call.model.fitted_on # data
    /\ Len(data.cols) > 1

====
